---------------------------- MODULE Spec2Model ----------------------------
(* Model of the TAR stream extraction engine of src/src/tarStreamExtractor.c *)
(* (header codec raw_to_header/checksum and the state machine driven by      *)
(* tarStrEx_init, tarStrEx_process_data and tarStrEx_finalize).              *)
(* Bytes are naturals 0..255, a block is a sequence of TAR_BLOCK_SIZE bytes. *)
EXTENDS Integers, Sequences, FiniteSets, TLC

(***************************************************************************)
(* Program constants                                                       *)
(***************************************************************************)
TAR_BLOCK_SIZE == 512

\* field offsets of tar_header_t (0-based, as offsetof)
OFF_NAME == 0
OFF_SIZE == 124
OFF_CHECKSUM == 148
OFF_TYPE == 156

TAR_TYPE_REG == 48
TAR_TYPE_SYM == 50
TAR_TYPE_DIR == 53

TARSTEX_ESUCCESS == 0
TARSTEX_EFAILURE == -1
TARSTEX_EBADCHKSUM == -2
TARSTEX_ENULLRECORD == -3

\* widths of the C integer types involved
U16 == 65536

(***************************************************************************)
(* Bounds of the model                                                     *)
(***************************************************************************)
\* number of entries of an archive
MaxEntries == 2
\* number of one-byte chunks a run may feed (larger chunks are not limited)
MaxTiny == 2
\* number of tarStrEx_finalize calls at the end of a stream
MaxFinalize == 2
\* the callback invocations that may fail are among the first MaxFailAt
MaxFailAt == 4
\* number of tarStrEx_init calls after the first
MaxReinit == 1

(***************************************************************************)
(* Small helpers                                                           *)
(***************************************************************************)
min(a, b) == IF a < b THEN a ELSE b

Zeros(n) == [i \in 1..n |-> 0]

RECURSIVE SumBytes(_, _, _)
\* sum of p[i] for the 0-based indexes from <= i < to (eight bytes at a time
\* to keep the evaluation shallow)
SumBytes(p, from, to) ==
  IF to - from >= 8
    THEN p[from + 1] + p[from + 2] + p[from + 3] + p[from + 4] + p[from + 5]
           + p[from + 6] + p[from + 7] + p[from + 8] + SumBytes(p, from + 8, to)
  ELSE IF from >= to THEN 0
  ELSE p[from + 1] + SumBytes(p, from + 1, to)

(***************************************************************************)
(* Header codec                                                            *)
(***************************************************************************)
\* static uint32_t checksum(const tar_header_t *rh): 256 plus every byte
\* outside the checksum field.  At most 256 + 504 * 255, so no wrap.
checksum(rh) ==
  256 + SumBytes(rh, 0, OFF_CHECKSUM) + SumBytes(rh, OFF_TYPE, TAR_BLOCK_SIZE)

IsSpace(c) == c \in {9, 10, 11, 12, 13, 32}
IsOctal(c) == c >= 48 /\ c <= 55

\* the byte strtoul reads at 0-based offset i of the engine's block buffer;
\* the buffer is followed in struct tarStrEx_t by buffIdx, modelled here as a
\* terminating non-digit
ByteAt(rh, i) == IF i < TAR_BLOCK_SIZE THEN rh[i + 1] ELSE 0

RECURSIVE SkipSpace(_, _)
SkipSpace(rh, i) == IF IsSpace(ByteAt(rh, i)) THEN SkipSpace(rh, i + 1) ELSE i

RECURSIVE OctDigits(_, _, _)
\* accumulates octal digits from offset i on, as two limbs <<hi, lo>> of the
\* value hi * 2^16 + lo (TLC integers are too narrow for an unsigned long)
OctDigits(rh, i, acc) ==
  IF IsOctal(ByteAt(rh, i))
    THEN LET v == acc[2] * 8 + (ByteAt(rh, i) - 48)
         IN OctDigits(rh, i + 1, <<acc[1] * 8 + (v \div U16), v % U16>>)
    ELSE acc

\* strtoul(&rh[off], NULL, 8): optional white space, optional sign, then the
\* longest run of octal digits; it does not stop at the end of the field
strtoul(rh, off) ==
  LET s == SkipSpace(rh, off)
      neg == ByteAt(rh, s) = 45
      d == IF ByteAt(rh, s) \in {43, 45} THEN s + 1 ELSE s
      v == OctDigits(rh, d, <<0, 0>>)
  IN [neg |-> neg, hi |-> v[1], lo |-> v[2]]

\* conversion of the unsigned long to uint32_t, as two 16 bit limbs
ToU32(v) ==
  IF ~v.neg THEN <<v.hi % U16, v.lo>>
  ELSE LET lo == (U16 - v.lo) % U16
           borrow == IF v.lo = 0 THEN 0 ELSE 1
       IN <<(U16 - (v.hi % U16) - borrow) % U16, lo>>

\* value of a uint32_t given as limbs
U32Val(u) == u[1] * U16 + u[2]

\* chksum1 != chksum2 of raw_to_header, limb by limb
ChecksumDiffers(rh) ==
  LET chksum1 == checksum(rh)
      chksum2 == ToU32(strtoul(rh, OFF_CHECKSUM))
  IN <<chksum1 \div U16, chksum1 % U16>> # chksum2

\* the number of bytes before the first NUL at or after 0-based offset i
StrLen(b, i) ==
  CHOOSE n \in 0..(TAR_BLOCK_SIZE - i) :
    /\ ByteAt(b, i + n) = 0
    /\ \A m \in 0..(n - 1) : ByteAt(b, i + m) # 0

\* the C string that starts at 0-based offset i: the bytes before the first
\* NUL at or after i (b is rh, evaluated once)
CStr(rh, i) ==
  CHOOSE s \in {SubSeq(b, i + 1, i + StrLen(b, i)) : b \in {rh}} : TRUE

\* what the build makes of a name copy that overruns hdr.name; it is fixed
\* for a whole run
VARIABLE build

\* sizeof(h->name) of tarStrEx_header_t
NAME_SIZE == 100

\* the byte of the object h at offset o >= NAME_SIZE after s and its NUL have
\* been copied to offset 0, old being the byte stored there before
CopiedByte(s, o, old) ==
  IF o < Len(s) THEN s[o + 1] ELSE IF o = Len(s) THEN 0 ELSE old

\* strcpy(h->name, rh->name), h holding the size and type just stored.  The
\* copy runs to the first NUL at or after rh->name.  A string of NAME_SIZE
\* characters or more does not fit h->name: the behaviour is undefined, and
\* the outcomes modelled are
\*   "overwrite"  the bytes past h->name land on h->size (the four bytes
\*                that follow the name, least significant first) and on
\*                h->type (the byte after them), and later reads see them;
\*   "forward"    the bytes land there, but the reads of h->size and h->type
\*                that follow use the values stored before the copy;
\*   "abort"      a checked strcpy terminates the process.
\* In each the string that h->name points at is the whole string copied.
strcpy_name(h, rh) ==
  LET s == CStr(rh, OFF_NAME)
      B(i) == CopiedByte(s, NAME_SIZE + i, (h.size \div (256 ^ i)) % 256)
  IN IF Len(s) < NAME_SIZE
       THEN [hdr |-> [h EXCEPT !.name = s], abort |-> FALSE]
     ELSE IF build = "overwrite"
       THEN [hdr |-> [name |-> s,
                      size |-> B(0) + 256 * B(1) + 65536 * B(2)
                                 + 16777216 * B(3),
                      type |-> CopiedByte(s, NAME_SIZE + 4, h.type)],
             abort |-> FALSE]
     ELSE IF build = "forward"
       THEN [hdr |-> [h EXCEPT !.name = s], abort |-> FALSE]
     ELSE [hdr |-> h, abort |-> TRUE]

\* static int raw_to_header(tarStrEx_header_t *h, const tar_header_t *rh)
\* h is the previous content of tar->hdr, left alone unless the decode succeeds
raw_to_header(h, rh) ==
  IF rh[OFF_CHECKSUM + 1] = 0
    THEN [res |-> TARSTEX_ENULLRECORD, hdr |-> h, abort |-> FALSE]
  ELSE IF ChecksumDiffers(rh)
    THEN [res |-> TARSTEX_EBADCHKSUM, hdr |-> h, abort |-> FALSE]
  ELSE LET c == strcpy_name([name |-> h.name,
                             size |-> U32Val(ToU32(strtoul(rh, OFF_SIZE))),
                             type |-> rh[OFF_TYPE + 1]], rh)
       IN [res |-> TARSTEX_ESUCCESS, hdr |-> c.hdr, abort |-> c.abort]


(***************************************************************************)
(* Engine: struct tarStrEx_t and the callbacks                             *)
(***************************************************************************)
\* a callback invocation appended to the observed log.  The n-th invocation
\* since tarStrEx_init returns non-zero iff n is in the failure plan fp.
\* "at" is the stream offset the call is about: the end of the header block,
\* the end of the payload delivered so far, or where finalize was called.
\* "len" is the dataSz argument of recvData, "data" the bytes it points at.
Invoke(log, fp, cb, path, bytes, len, at) ==
  Append(log, [cb |-> cb, path |-> path, data |-> bytes, len |-> len,
               res |-> IF (Len(log) + 1) \in fp THEN 1 ELSE 0, at |-> at])

LastRes(log) == log[Len(log)].res

\* memcpy(&tar->blockBuff[buffIdx], &data[dataIdx], chunkSz)
memcpy(blockBuff, buffIdx, data, dataIdx, chunkSz) ==
  SubSeq(blockBuff, 1, buffIdx)
    \o SubSeq(data, dataIdx + 1, dataIdx + chunkSz)
    \o SubSeq(blockBuff, buffIdx + chunkSz + 1, TAR_BLOCK_SIZE)

\* the first n bytes of the block buffer, as handed to recvData
Take(blockBuff, n) == SubSeq(blockBuff, 1, min(n, TAR_BLOCK_SIZE))

\* (changed) one byte less is counted as free
ResetBlockShort(t) ==
  [t EXCEPT !.remaining_buffBytes = TAR_BLOCK_SIZE - 1, !.buffIdx = 0]

\* update indexes: remaining_buffBytes = TAR_BLOCK_SIZE; buffIdx = 0
ResetBlock(t) == [t EXCEPT !.remaining_buffBytes = TAR_BLOCK_SIZE, !.buffIdx = 0]

\* result of one pass of the while loop: the engine, the observations, and
\* either "go on with the loop" (break) or the value returned (return)
Break(t, log, dec) ==
  [t |-> t, log |-> log, dec |-> dec, go |-> TRUE, ret |-> TARSTEX_ESUCCESS]
\* (changed) every return inside the loop reports success
ReturnSuccess(t, log, dec, ret) ==
  [t |-> t, log |-> log, dec |-> dec, go |-> FALSE, ret |-> TARSTEX_ESUCCESS]
Return(t, log, dec, ret) ==
  [t |-> t, log |-> log, dec |-> dec, go |-> FALSE, ret |-> ret]

\* (changed) a header of an unsupported type is skipped like a null record
UnsupportedTypeSkipped(t, log, dec) == Break(ResetBlock(t), log, dec)

\* default: of switch (tar->hdr.type): unsupported type
UnsupportedType(t, log, dec) ==
  Return([t EXCEPT !.status = "tar_error"], log, dec, TARSTEX_EFAILURE)

\* case tar_header of tarStrEx_process_data, t after the copy.  The status
\* "aborted" stands for the process that a checked strcpy has terminated: the
\* call does not return and no operation follows.
CaseHeader(t, log, dec, fp, at) ==
  IF t.remaining_buffBytes # 0 THEN Break(t, log, dec)
  ELSE
    LET r == raw_to_header(t.hdr, t.blockBuff)
        t1 == [t EXCEPT !.hdr = r.hdr]
        dec1 == Append(dec, [at |-> at, res |-> r.res])
    IN IF r.abort
         THEN Return([t1 EXCEPT !.status = "aborted"], log, dec, TARSTEX_EFAILURE)
       ELSE IF r.res = TARSTEX_ENULLRECORD
         THEN Break(ResetBlock(t1), log, dec1)
       ELSE IF r.res # TARSTEX_ESUCCESS
         THEN Return([t1 EXCEPT !.status = "tar_error"], log, dec1, r.res)
       ELSE IF t1.hdr.type = TAR_TYPE_REG
         THEN LET log1 == Invoke(log, fp, "fileInit", t1.hdr.name, <<>>, 0, at)
              IN IF LastRes(log1) # 0
                   THEN Return([t1 EXCEPT !.status = "tar_error"], log1, dec1,
                             TARSTEX_EFAILURE)
                   ELSE Break(ResetBlock([t1 EXCEPT
                                           !.status = "tar_fileData",
                                           !.remaining_filedata = t1.hdr.size]),
                             log1, dec1)
       ELSE IF t1.hdr.type = TAR_TYPE_DIR
         THEN LET log1 == Invoke(log, fp, "dirCreate", t1.hdr.name, <<>>, 0, at)
              IN IF LastRes(log1) # 0
                   THEN Return([t1 EXCEPT !.status = "tar_error"], log1, dec1,
                             TARSTEX_EFAILURE)
                   ELSE Break(ResetBlock(t1), log1, dec1)
       ELSE UnsupportedType(t1, log, dec1)

\* (changed) the whole filled part of the block buffer is handed over
FinalFragmentLenWhole(t, chunkSz, fileChunk) == t.buffIdx

\* length handed to recvData when the file completes:
\* tar->buffIdx - (chunkSz - fileChunk)
FinalFragmentLen(t, chunkSz, fileChunk) == t.buffIdx - (chunkSz - fileChunk)

\* (changed) fileFinalize is not called when the file completes
CaseFileDataNoEnd(t, log, dec, fp, at, chunkSz) ==
  LET fileChunk == min(t.remaining_filedata, chunkSz) % U16
      t1 == [t EXCEPT !.remaining_filedata = t.remaining_filedata - fileChunk]
  IN IF t1.remaining_filedata = 0
       THEN LET n == FinalFragmentLen(t1, chunkSz, fileChunk)
                log1 == Invoke(log, fp, "recvData", <<>>, Take(t1.blockBuff, n), n,
                               at - (chunkSz - fileChunk))
            IN IF LastRes(log1) # 0
                 THEN Return([t1 EXCEPT !.status = "tar_error"], log1, dec,
                           TARSTEX_EFAILURE)
               ELSE IF t1.remaining_buffBytes = 0
                 THEN Break(ResetBlock([t1 EXCEPT !.status = "tar_header"]),
                           log1, dec)
               ELSE Break([t1 EXCEPT !.status = "tar_filePad"], log1, dec)
     ELSE IF t1.remaining_buffBytes = 0
       THEN LET log1 == Invoke(log, fp, "recvData", <<>>,
                               Take(t1.blockBuff, TAR_BLOCK_SIZE),
                               TAR_BLOCK_SIZE, at)
            IN IF LastRes(log1) # 0
                 THEN Return([t1 EXCEPT !.status = "tar_error"], log1, dec,
                           TARSTEX_EFAILURE)
                 ELSE Break(ResetBlock(t1), log1, dec)
     ELSE Break(t1, log, dec)

\* case tar_fileData of tarStrEx_process_data, t after the copy
CaseFileData(t, log, dec, fp, at, chunkSz) ==
  LET fileChunk == min(t.remaining_filedata, chunkSz) % U16
      t1 == [t EXCEPT !.remaining_filedata = t.remaining_filedata - fileChunk]
  IN IF t1.remaining_filedata = 0
       THEN LET n == FinalFragmentLen(t1, chunkSz, fileChunk)
                log1 == Invoke(log, fp, "recvData", <<>>, Take(t1.blockBuff, n), n,
                               at - (chunkSz - fileChunk))
                res == LastRes(log1)
                log2 == Invoke(log1, fp, "fileFinalize", <<>>, <<>>, 0,
                               at - (chunkSz - fileChunk))
            IN IF res # 0
                 THEN Return([t1 EXCEPT !.status = "tar_error"], log2, dec,
                           TARSTEX_EFAILURE)
               ELSE IF t1.remaining_buffBytes = 0
                 THEN Break(ResetBlock([t1 EXCEPT !.status = "tar_header"]),
                           log2, dec)
               ELSE Break([t1 EXCEPT !.status = "tar_filePad"], log2, dec)
     ELSE IF t1.remaining_buffBytes = 0
       THEN LET log1 == Invoke(log, fp, "recvData", <<>>,
                               Take(t1.blockBuff, TAR_BLOCK_SIZE),
                               TAR_BLOCK_SIZE, at)
            IN IF LastRes(log1) # 0
                 THEN Return([t1 EXCEPT !.status = "tar_error"], log1, dec,
                           TARSTEX_EFAILURE)
                 ELSE Break(ResetBlock(t1), log1, dec)
     ELSE Break(t1, log, dec)

\* (changed) the pad state is left without waiting for the block to fill
CaseFilePadEarly(t, log, dec) ==
  Break(ResetBlock([t EXCEPT !.status = "tar_header"]), log, dec)

\* case tar_filePad of tarStrEx_process_data, t after the copy
CaseFilePad(t, log, dec) ==
  IF t.remaining_buffBytes = 0
    THEN Break(ResetBlock([t EXCEPT !.status = "tar_header"]), log, dec)
    ELSE Break(t, log, dec)

RECURSIVE ProcessLoop(_, _, _, _, _, _, _, _, _)
\* the while (dataSz > 0) loop of tarStrEx_process_data; base is the number
\* of stream bytes fed before this call (for the "at" of the observations).
\* Besides the engine and the value returned, the result tells how the loop
\* ran: consumed is the final dataIdx, stalls the number of passes that
\* reached the memcpy with a chunkSz of 0 (counted in the last parameter).
ProcessLoop(t, log, dec, fp, base, data, dataSz, dataIdx, stalls) ==
  IF dataSz = 0
    THEN [t |-> t, log |-> log, dec |-> dec, ret |-> TARSTEX_ESUCCESS,
          consumed |-> dataIdx, stalls |-> stalls]
  ELSE IF t.status = "tar_error"
    THEN [t |-> t, log |-> log, dec |-> dec, ret |-> TARSTEX_EFAILURE,
          consumed |-> dataIdx, stalls |-> stalls]
  ELSE
    LET chunkSz == min(dataSz, t.remaining_buffBytes)
        tc == [t EXCEPT
                 !.blockBuff = memcpy(t.blockBuff, t.buffIdx, data, dataIdx, chunkSz),
                 !.buffIdx = (t.buffIdx + chunkSz) % U16,
                 !.remaining_buffBytes = (t.remaining_buffBytes - chunkSz) % U16]
        dataSz1 == dataSz - chunkSz
        dataIdx1 == (dataIdx + chunkSz) % U16
        at == base + dataIdx1
        stalls1 == IF chunkSz = 0 THEN stalls + 1 ELSE stalls
        p == CASE tc.status = "tar_header" -> CaseHeader(tc, log, dec, fp, at)
               [] tc.status = "tar_fileData" ->
                    CaseFileData(tc, log, dec, fp, at, chunkSz)
               [] tc.status = "tar_filePad" -> CaseFilePad(tc, log, dec)
               [] OTHER -> Break(tc, log, dec)
    IN IF ~p.go
         THEN [t |-> p.t, log |-> p.log, dec |-> p.dec, ret |-> p.ret,
               consumed |-> dataIdx1, stalls |-> stalls1]
         ELSE ProcessLoop(p.t, p.log, p.dec, fp, base, data, dataSz1, dataIdx1,
                          stalls1)

\* int tarStrEx_process_data(tarStrEx_t *tar, const uint8_t *data, uint16_t dataSz)
tarStrEx_process_data(t, log, dec, fp, base, data, dataSz) ==
  ProcessLoop(t, log, dec, fp, base, data, dataSz % U16, 0, 0)

\* (changed) the status is not reset
tarStrEx_init_keepStatus(t) ==
  [t EXCEPT !.remaining_filedata = 0,
            !.remaining_buffBytes = TAR_BLOCK_SIZE, !.buffIdx = 0]

\* int tarStrEx_init(...): binds the callbacks and resets status and counters;
\* the block buffer and the decoded header keep whatever they held
tarStrEx_init(t) ==
  [t EXCEPT !.status = "tar_header", !.remaining_filedata = 0,
            !.remaining_buffBytes = TAR_BLOCK_SIZE, !.buffIdx = 0]

\* (changed) file-end is called unless the engine awaits a header
tarStrEx_finalize_anyState(t, log, fp, at) ==
  IF t.status # "tar_header"
    THEN LET log1 == Invoke(log, fp, "fileFinalize", <<>>, <<>>, 0, at)
         IN [t |-> t, log |-> log1,
             ret |-> IF LastRes(log1) # 0 THEN TARSTEX_EFAILURE
                                          ELSE TARSTEX_ESUCCESS]
    ELSE [t |-> t, log |-> log, ret |-> TARSTEX_ESUCCESS]

\* int tarStrEx_finalize(tarStrEx_t *tar)
tarStrEx_finalize(t, log, fp, at) ==
  IF t.status = "tar_fileData"
    THEN LET log1 == Invoke(log, fp, "fileFinalize", <<>>, <<>>, 0, at)
         IN [t |-> t, log |-> log1,
             ret |-> IF LastRes(log1) # 0 THEN TARSTEX_EFAILURE
                                          ELSE TARSTEX_ESUCCESS]
    ELSE [t |-> t, log |-> log, ret |-> TARSTEX_ESUCCESS]

\* the storage handed to the first tarStrEx_init (static, zero filled)
ZeroStorage ==
  [blockBuff |-> Zeros(TAR_BLOCK_SIZE), buffIdx |-> 0, remaining_buffBytes |-> 0,
   remaining_filedata |-> 0, status |-> "tar_header",
   hdr |-> [name |-> <<>>, size |-> 0, type |-> 0]]

(***************************************************************************)
(* Input archives: byte streams laid out as tar_header_t blocks            *)
(***************************************************************************)
PadTo(s, n) == s \o Zeros(n - Len(s))

RECURSIVE Oct(_, _)
\* n as w octal ASCII digits
Oct(n, w) == IF w = 0 THEN <<>> ELSE Oct(n \div 8, w - 1) \o <<48 + (n % 8)>>

\* a header block with the given checksum field
RawHeader(name, size, type, chk, last) ==
  PadTo(name, 100) \o Oct(420, 7) \o <<0>> \o Oct(0, 7) \o <<0>>
    \o Oct(0, 7) \o <<0>> \o Oct(size, 11) \o <<0>> \o Oct(0, 11) \o <<0>>
    \o chk \o <<type>> \o Zeros(100) \o Zeros(254) \o <<last>>

\* the usual header: checksum written as six digits, NUL, space
MkHeader(name, size, type) ==
  LET h == RawHeader(name, size, type, Zeros(8), 0)
  IN RawHeader(name, size, type, Oct(checksum(h), 6) \o <<0, 32>>, 0)

\* a header whose checksum field holds eight digits and no terminator, as
\* old tar writers produce: strtoul reads on into the type byte.  The last
\* reserved byte is chosen so that the block decodes successfully.
MkHeader8(name, size, type) ==
  LET d == type - 48
      x == CHOOSE x \in 0..7 :
             (checksum(RawHeader(name, size, type, Zeros(8), x)) - d) % 8 = 0
      sum == checksum(RawHeader(name, size, type, Zeros(8), x))
  IN RawHeader(name, size, type, Oct((sum - d) \div 8, 8), x)

\* a regular-file header whose size field reads '4' and then low as ten
\* octal digits: the declared size is 2^32 + low
MkHeaderBig(name, low, type) ==
  LET h == [RawHeader(name, low, type, Zeros(8), 0) EXCEPT ![OFF_SIZE + 1] = 52]
  IN SubSeq(h, 1, OFF_CHECKSUM) \o Oct(checksum(h), 6) \o <<0, 32>>
       \o SubSeq(h, OFF_TYPE + 1, TAR_BLOCK_SIZE)

\* payload byte i (1-based) of a file, and the payload padded to whole blocks
PayloadByte(i) == 65 + (i % 23)
Payload(size) ==
  [i \in 1..(((size + TAR_BLOCK_SIZE - 1) \div TAR_BLOCK_SIZE) * TAR_BLOCK_SIZE) |->
     IF i <= size THEN PayloadByte(i) ELSE 0]

FileName == <<102, 46, 98>>
DirName == <<100, 47>>

\* a path of n characters 'a'
LongName(n) == [i \in 1..n |-> 97]

\* entries: kind, declared size, and for a "mut" entry the changed byte
Entry(kind, size) == [kind |-> kind, size |-> size, off |-> 0, val |-> 0]
Mut(kind, size, off, val) == [kind |-> kind, size |-> size, off |-> off, val |-> val]

BaseHeader(e) ==
  CASE e.kind \in {"file", "bad"} -> MkHeader(FileName, e.size, TAR_TYPE_REG)
    [] e.kind = "dir" -> MkHeader(DirName, 0, TAR_TYPE_DIR)
    [] e.kind = "sym" -> MkHeader(FileName, 0, TAR_TYPE_SYM)
    [] e.kind = "typed" -> MkHeader(FileName, 0, e.val)
    [] e.kind = "bigfile" -> MkHeaderBig(FileName, e.size, TAR_TYPE_REG)
    [] e.kind = "named" -> MkHeader(LongName(e.val), e.size, TAR_TYPE_REG)
    [] e.kind = "nameddir" -> MkHeader(LongName(e.val), 0, TAR_TYPE_DIR)
    [] e.kind = "mutfile" -> MkHeader(FileName, e.size, TAR_TYPE_REG)
    [] e.kind = "mutdir" -> MkHeader(DirName, 0, TAR_TYPE_DIR)
    [] e.kind = "mutfile8" -> MkHeader8(FileName, e.size, TAR_TYPE_REG)
    [] OTHER -> Zeros(TAR_BLOCK_SIZE)

IsMut(e) == e.kind \in {"mutfile", "mutdir", "mutfile8"}

\* the bytes of an entry: header block and padded payload
EntryBytes(e) ==
  CASE e.kind = "file" -> BaseHeader(e) \o Payload(e.size)
    [] e.kind = "dir" -> BaseHeader(e)
    [] e.kind = "sym" -> BaseHeader(e)
    [] e.kind = "typed" -> BaseHeader(e)
    [] e.kind = "named" -> BaseHeader(e) \o Payload(e.size)
    [] e.kind = "nameddir" -> BaseHeader(e)
    [] e.kind = "bigfile" ->
         BaseHeader(e) \o [i \in 1..(2 * TAR_BLOCK_SIZE) |-> PayloadByte(i)]
    [] e.kind = "bad" -> [BaseHeader(e) EXCEPT ![1] = 103] \o Payload(e.size)
    [] e.kind = "eoa" -> Zeros(2 * TAR_BLOCK_SIZE)
    [] IsMut(e) -> [BaseHeader(e) EXCEPT ![e.off + 1] = e.val] \o Payload(e.size)

RECURSIVE Stream(_)
Stream(a) == IF a = <<>> THEN <<>> ELSE EntryBytes(Head(a)) \o Stream(Tail(a))

(***************************************************************************)
(* The caller: one archive stream fed chunk by chunk                        *)
(***************************************************************************)
VARIABLES
  archive,   \* the entries of the stream being fed
  fp,        \* failure plan of the callbacks (indexes of failing invocations)
  pos,       \* number of stream bytes handed to tarStrEx_process_data so far
  tar,       \* struct tarStrEx_t
  log,       \* callback invocations since the last tarStrEx_init
  dec,       \* raw_to_header results since the last tarStrEx_init
  ret,       \* value returned by the last operation
  op,        \* the last operation: "init", "process" or "finalize"
  pre,       \* engine status before the last operation
  tiny,      \* one-byte chunks fed so far
  fins,      \* tarStrEx_finalize calls since the last tarStrEx_init
  reinits,   \* tarStrEx_init calls after the first
  fresh,     \* once the engine has been re-initialized: a freshly initialized
             \* engine (zeroed storage) given the same calls since then
  call       \* how the loop of the last tarStrEx_process_data call ran: input
             \* bytes left unconsumed, passes that consumed nothing

vars == <<archive, fp, pos, tar, log, dec, ret, op, pre, tiny, fins, reinits,
          fresh, build, call>>

\* declared sizes: empty, a whole block, a block and one byte
FileSizes == {0, 512, 513}

EntryKinds ==
  {Entry("file", s) : s \in FileSizes}
    \cup {Entry("dir", 0), Entry("eoa", 0)}

SeqsUpTo(S, n) == UNION {[1..m -> S] : m \in 1..n}

\* archives fed with callbacks that all succeed
Archives == SeqsUpTo(EntryKinds, MaxEntries)

\* archives fed with failing callbacks: one entry and the end-of-archive marker
FailArchives ==
  {<<e, Entry("eoa", 0)>> :
     e \in EntryKinds \cup {Entry("file", 1), Entry("sym", 0), Entry("bad", 1)}}

\* archives whose first header has one byte changed
MutOffsets == {OFF_NAME, OFF_SIZE + 10, OFF_TYPE, TAR_BLOCK_SIZE - 1}
MutValues == {1, 48, 53}
MutEntries ==
  {e \in {Mut(k, 1, o, v) : k \in {"mutfile", "mutdir", "mutfile8"},
                            o \in MutOffsets, v \in MutValues} :
     BaseHeader(e)[e.off + 1] # e.val}
MutArchives == {<<e, Entry("eoa", 0)>> : e \in MutEntries}

\* type bytes other than '0' and '5': NUL (old-style regular file), '1' hard
\* link, '2' symbolic link, '6' fifo, '7', 'L' and 'g' (extension headers)
OtherTypes == {0, 49, 50, 54, 55, 76, 103}

\* archives with a header of another type, first or after another entry
TypeArchives ==
  {<<Mut("typed", 0, OFF_TYPE, v), Entry("eoa", 0)>> : v \in OtherTypes}
    \cup {<<e, Mut("typed", 0, OFF_TYPE, v)>> :
            e \in {Entry("dir", 0), Entry("file", 513)}, v \in OtherTypes}

\* streams fed before and after a re-initialization: they leave the engine
\* mid-header, mid-file, in the pad, awaiting a header or in error
ReinitArchives ==
  {<<e, Entry("eoa", 0)>> :
     e \in {Entry("file", 513), Entry("file", 0), Entry("dir", 0), Entry("bad", 1)}}

\* callbacks all succeed, or the second invocation fails
ReinitPlans == {{}, {2}}

\* streams that begin with a file of 2^32 + low bytes: its header and the
\* first two blocks of its payload
BigLows == {1, 512, 513}
BigArchives == {<<Entry("bigfile", low)>> : low \in BigLows}

\* at most one callback invocation fails, among the first MaxFailAt
FailPlans == {{}} \cup {{i} : i \in 1..MaxFailAt}

\* chunk lengths the caller uses: empty, one byte, around one block, several
\* blocks at once
ChunkSizes == {0, 1, 511, 512, 1100}

\* archives whose first entry has a name that fills, or all but fills, the
\* 100 bytes of the name field
NameLens == {NAME_SIZE - 1, NAME_SIZE}
NameArchives ==
  {<<Mut(k, 1, 0, n), Entry("eoa", 0)>> :
     k \in {"named", "nameddir"}, n \in NameLens}

\* archives of one file of two or three payload blocks, the last one whole
\* or holding one byte
BlockSizes == {2 * TAR_BLOCK_SIZE, 2 * TAR_BLOCK_SIZE + 1}
BlockArchives == {<<Entry("file", n), Entry("eoa", 0)>> : n \in BlockSizes}

\* the outcomes of the undefined behaviour of strcpy_name
Builds == {"overwrite", "forward", "abort"}

\* the byte stream of every archive, built once
Streams ==
  {<<a, Stream(a)>> :
     a \in Archives \cup FailArchives \cup MutArchives \cup TypeArchives
            \cup BigArchives \cup NameArchives \cup BlockArchives}
StreamOf(a) == (CHOOSE p \in Streams : p[1] = a)[2]

\* a freshly initialized engine on zeroed storage, nothing observed yet
FreshEngine ==
  [t |-> tarStrEx_init(ZeroStorage), log |-> <<>>, dec |-> <<>>,
   ret |-> TARSTEX_ESUCCESS]

\* no tarStrEx_process_data call has been made
NoCall == [left |-> 0, stalls |-> 0]

InitCommon ==
  /\ pos = 0
  /\ call = NoCall
  /\ fresh = FreshEngine
  /\ tar = tarStrEx_init(ZeroStorage)
  /\ log = <<>>
  /\ dec = <<>>
  /\ ret = TARSTEX_ESUCCESS
  /\ op = "init"
  /\ pre = "tar_header"
  /\ tiny = 0
  /\ fins = 0
  /\ reinits = 0

\* all callbacks return 0
Init ==
  /\ archive \in Archives
  /\ fp = {}
  /\ build = "overwrite"
  /\ InitCommon

\* one callback invocation may return non-zero
InitFail ==
  /\ archive \in FailArchives
  /\ fp \in FailPlans
  /\ build = "overwrite"
  /\ InitCommon

\* the first header of the stream is a header with one byte changed
InitMut ==
  /\ archive \in MutArchives
  /\ fp = {}
  /\ build = "overwrite"
  /\ InitCommon

\* the engine will be re-initialized in the middle of the run
InitReinit ==
  /\ archive \in ReinitArchives
  /\ fp \in ReinitPlans
  /\ build = "overwrite"
  /\ InitCommon

\* the stream begins with a file of 4 GiB or more
InitBig ==
  /\ archive \in BigArchives
  /\ fp = {}
  /\ build = "overwrite"
  /\ InitCommon

\* the stream holds a header whose type is neither regular file nor directory
InitType ==
  /\ archive \in TypeArchives
  /\ fp = {}
  /\ build = "overwrite"
  /\ InitCommon

\* a file of several blocks, all callbacks return 0
InitBlocks ==
  /\ archive \in BlockArchives
  /\ fp = {}
  /\ build = "overwrite"
  /\ InitCommon

\* the first name is long, all callbacks return 0, any build
InitName ==
  /\ archive \in NameArchives
  /\ fp = {}
  /\ build \in Builds
  /\ InitCommon

\* the caller hands the next k bytes of the stream to tarStrEx_process_data
ProcessChunk(k) ==
  /\ tar.status # "aborted"
  /\ fins = 0
  /\ k = 1 => tiny < MaxTiny
  /\ pos + k <= Len(StreamOf(archive))
  /\ \E r \in {tarStrEx_process_data(tar, log, dec, fp, pos,
                   SubSeq(StreamOf(archive), pos + 1, pos + k), k)} :
        /\ tar' = r.t
        /\ log' = r.log
        /\ dec' = r.dec
        /\ ret' = r.ret
        /\ call' = [left |-> k - r.consumed, stalls |-> r.stalls]
  /\ \E q \in {IF reinits = 0 THEN fresh
                ELSE tarStrEx_process_data(fresh.t, fresh.log, fresh.dec, fp, pos,
                       SubSeq(StreamOf(archive), pos + 1, pos + k), k)} :
        fresh' = [t |-> q.t, log |-> q.log, dec |-> q.dec, ret |-> q.ret]
  /\ pos' = pos + k
  /\ op' = "process"
  /\ pre' = tar.status
  /\ tiny' = IF k = 1 THEN tiny + 1 ELSE tiny
  /\ UNCHANGED <<archive, fp, fins, reinits, build>>

Process == \E k \in ChunkSizes : ProcessChunk(k)

\* the caller ends the stream
Finalize ==
  /\ tar.status # "aborted"
  /\ fins < MaxFinalize
  /\ \E r \in {tarStrEx_finalize(tar, log, fp, pos)} :
        /\ tar' = r.t
        /\ log' = r.log
        /\ ret' = r.ret
  /\ \E q \in {IF reinits = 0 THEN [t |-> fresh.t, log |-> fresh.log,
                                     ret |-> fresh.ret]
                ELSE tarStrEx_finalize(fresh.t, fresh.log, fp, pos)} :
        fresh' = [t |-> q.t, log |-> q.log, dec |-> fresh.dec, ret |-> q.ret]
  /\ op' = "finalize"
  /\ pre' = tar.status
  /\ fins' = fins + 1
  /\ UNCHANGED <<archive, fp, pos, dec, tiny, reinits, build, call>>

\* the caller reinitializes the engine in place and feeds the stream again
Reinit ==
  /\ tar.status # "aborted"
  /\ reinits < MaxReinit
  /\ tar' = tarStrEx_init(tar)
  /\ log' = <<>>
  /\ dec' = <<>>
  /\ pos' = 0
  /\ ret' = TARSTEX_ESUCCESS
  /\ op' = "init"
  /\ pre' = tar.status
  /\ tiny' = 0
  /\ fins' = 0
  /\ reinits' = reinits + 1
  /\ fresh' = FreshEngine
  /\ call' = NoCall
  /\ UNCHANGED <<archive, fp, build>>

\* the caller reinitializes the engine in place and feeds another stream
ReinitOther ==
  /\ tar.status # "aborted"
  /\ reinits < MaxReinit
  /\ archive' \in ReinitArchives
  /\ tar' = tarStrEx_init(tar)
  /\ log' = <<>>
  /\ dec' = <<>>
  /\ pos' = 0
  /\ ret' = TARSTEX_ESUCCESS
  /\ op' = "init"
  /\ pre' = tar.status
  /\ tiny' = 0
  /\ fins' = 0
  /\ reinits' = reinits + 1
  /\ fresh' = FreshEngine
  /\ call' = NoCall
  /\ UNCHANGED <<fp, build>>

\* feeding a stream
Next == Process

Spec == Init /\ [][Next]_vars

\* feeding a stream, ending it, and starting over
NextFail == Process \/ Finalize \/ Reinit

SpecFail == InitFail /\ [][NextFail]_vars

SpecMut == InitMut /\ [][Next]_vars

SpecType == InitType /\ [][Next]_vars

SpecBig == InitBig /\ [][Next]_vars

SpecName == InitName /\ [][Next]_vars

SpecBlocks == InitBlocks /\ [][NextFail]_vars

\* feeding a stream, ending it, and starting over with any stream
NextReinit == Process \/ Finalize \/ ReinitOther

SpecReinit == InitReinit /\ [][NextReinit]_vars

(***************************************************************************)
(* Observations on the callback log                                        *)
(***************************************************************************)
Min(S) == CHOOSE x \in S : \A y \in S : x <= y

\* the accepted files: fileInit invocations that returned 0
FileInits == {i \in DOMAIN log : log[i].cb = "fileInit" /\ log[i].res = 0}

\* last log index that belongs to the entry begun at index i
SegEnd(i) ==
  LET nxt == {j \in (i + 1)..Len(log) : log[j].cb \in {"fileInit", "dirCreate"}}
  IN IF nxt = {} THEN Len(log) ELSE Min(nxt) - 1

RECURSIVE SumLen(_, _)
\* sum of the lengths handed to recvData by the log entries i..j
SumLen(i, j) ==
  IF i > j THEN 0
  ELSE (IF log[j].cb = "recvData" THEN log[j].len ELSE 0) + SumLen(i, j - 1)

\* number of fileFinalize invocations among the log entries i..j
FinalizeCount(i, j) == Cardinality({k \in i..j : log[k].cb = "fileFinalize"})

\* the size a header block declares: the octal value of its size field, for
\* the block of the stream that ends at offset at
DeclaredSize(at) ==
  LET v == strtoul(SubSeq(StreamOf(archive), at - TAR_BLOCK_SIZE + 1, at), OFF_SIZE)
  IN v.hi * U16 + v.lo

AllCallbacksOk == \A k \in DOMAIN log : log[k].res = 0

\* entries are regular files and directories, the end-of-archive marker, if
\* fed already, comes last
WellFormed(a) ==
  \A i \in DOMAIN a :
    a[i].kind \in {"file", "dir"} \/ (a[i].kind = "eoa" /\ i = Len(a))

(***************************************************************************)
(* C1  Chunking invariance                                                 *)
(***************************************************************************)
\* the same bytes handed to a freshly initialized engine as one chunk
OneShot ==
  tarStrEx_process_data(tarStrEx_init(ZeroStorage), <<>>, <<>>, fp, 0,
                        SubSeq(StreamOf(archive), 1, pos), pos)

\* C1: whatever the partition of the bytes fed so far into chunks, the
\* callback invocations (kind, path, payload bytes, fragment length, result)
\* are those of the one-chunk partition of the same bytes; so any two
\* partitions of a stream produce the same sequence of invocations.
ChunkingInvariance == log = OneShot.log

\* a file of 513 bytes delivered through a run that used one-byte chunks
ChunkingWitness ==
  /\ tiny >= 1
  /\ op = "process"
  /\ \E i \in DOMAIN log : log[i].cb = "recvData" /\ log[i].len = 1
  /\ \E i \in DOMAIN log : log[i].cb = "fileFinalize"

(***************************************************************************)
(* C2  Round-trip accounting                                               *)
(***************************************************************************)
\* C2: for every accepted file of declared size S whose payload has been
\* fed completely, with all callbacks returning 0, the log holds, right after
\* its fileInit, recvData invocations whose lengths sum to S followed at once
\* by exactly one fileFinalize.
RoundTripAccounting ==
  \A i \in FileInits :
    (AllCallbacksOk /\ pos >= log[i].at + DeclaredSize(log[i].at)) =>
      LET e == SegEnd(i)
      IN /\ e > i
         /\ log[e].cb = "fileFinalize"
         /\ \A j \in (i + 1)..(e - 1) : log[j].cb = "recvData"
         /\ SumLen(i + 1, e - 1) = DeclaredSize(log[i].at)

(***************************************************************************)
(* C3  Zero-length file                                                    *)
(***************************************************************************)
\* C3: a header declaring size 0 gives fileInit and then fileFinalize with
\* no recvData in between, and the block that follows the header is decoded
\* as the next header.
ZeroLengthFile ==
  \A i \in FileInits :
    DeclaredSize(log[i].at) = 0 =>
      /\ i < Len(log) => log[i + 1].cb = "fileFinalize"
      /\ pos >= log[i].at + TAR_BLOCK_SIZE =>
           /\ i < Len(log)
           /\ \E k \in DOMAIN dec : dec[k].at = log[i].at + TAR_BLOCK_SIZE

(***************************************************************************)
(* C4  No failure on well-formed input                                     *)
(***************************************************************************)
\* C4: feeding a well-formed archive with callbacks that return 0, every
\* tarStrEx_process_data call returns success and the engine never enters
\* the error state.
NoFailureOnWellFormed ==
  (WellFormed(archive) /\ fp = {}) =>
    /\ tar.status # "tar_error"
    /\ op = "process" => ret = TARSTEX_ESUCCESS

(***************************************************************************)
(* C5  Sticky error state                                                  *)
(***************************************************************************)
\* C5: once the status is error, a tarStrEx_process_data or
\* tarStrEx_finalize call leaves it error and invokes no callback; only
\* tarStrEx_init leaves the error state.
StickyError ==
  [][(tar.status = "tar_error" /\ op' \in {"process", "finalize"}) =>
       (tar'.status = "tar_error" /\ log' = log)]_vars

\* both operations have been called on an engine already in error after a
\* failing callback
StickyErrorWitness ==
  /\ tar.status = "tar_error"
  /\ pre = "tar_error"
  /\ op = "finalize"
  /\ pos > 0
  /\ \E i \in DOMAIN log : log[i].res # 0

(***************************************************************************)
(* C6  Fail-fast return value                                              *)
(***************************************************************************)
\* C6: every tarStrEx_process_data call made while the status is error
\* returns a non-zero result, whatever the chunk length (0 included).
FailFastReturn ==
  [][(tar.status = "tar_error" /\ op' = "process") =>
       ret' # TARSTEX_ESUCCESS]_vars

(***************************************************************************)
(* C7  Any callback failure is fatal                                       *)
(***************************************************************************)
\* C7: when a callback invoked by tarStrEx_process_data or tarStrEx_finalize
\* returns non-zero, the operation reports failure and the status becomes
\* error (so that every later tarStrEx_process_data call fails).
CallbackFailureFatal ==
  [][(/\ op' \in {"process", "finalize"}
      /\ \E i \in (Len(log) + 1)..Len(log') : log'[i].res # 0) =>
       (ret' # TARSTEX_ESUCCESS /\ tar'.status = "tar_error")]_vars

(***************************************************************************)
(* C8  fileFinalize exactly once per accepted file                         *)
(***************************************************************************)
\* C8: for every accepted file fileFinalize is never invoked twice, and once
\* the caller has called tarStrEx_finalize it has been invoked exactly once.
FinalizeExactlyOnce ==
  \A i \in FileInits :
    /\ FinalizeCount(i + 1, SegEnd(i)) <= 1
    /\ fins >= 1 => FinalizeCount(i + 1, SegEnd(i)) = 1

(***************************************************************************)
(* C9  File-end after a failing data callback                              *)
(***************************************************************************)
\* C9: a recvData invocation that returns non-zero is followed by the
\* fileFinalize of that file, and the engine is in the error state.
FileEndAfterFailingData ==
  \A j \in DOMAIN log :
    (log[j].cb = "recvData" /\ log[j].res # 0) =>
      /\ j < Len(log)
      /\ log[j + 1].cb = "fileFinalize"
      /\ tar.status = "tar_error"

(***************************************************************************)
(* C10  Checksum rejection                                                 *)
(***************************************************************************)
\* the first header of the stream is a header that decodes successfully with
\* one byte outside the checksum field changed to another value
SingleByteChanged ==
  LET e == archive[1]
  IN /\ IsMut(e)
     /\ raw_to_header(ZeroStorage.hdr, BaseHeader(e)).res = TARSTEX_ESUCCESS
     /\ (e.off < OFF_CHECKSUM \/ e.off >= OFF_TYPE)
     /\ BaseHeader(e)[e.off + 1] # e.val

\* C10: the call that completes such a block reports failure, no fileInit or
\* dirCreate is invoked, the status is error, and the later non-empty calls
\* report failure and invoke nothing.
ChecksumRejection ==
  /\ [](SingleByteChanged /\ pos >= TAR_BLOCK_SIZE =>
          /\ tar.status = "tar_error"
          /\ log = <<>>
          /\ (op = "process" /\ pre # "tar_error") => ret # TARSTEX_ESUCCESS)
  /\ [][(SingleByteChanged /\ tar.status = "tar_error"
           /\ op' = "process" /\ pos' > pos) =>
          (ret' # TARSTEX_ESUCCESS /\ log' = log)]_vars

(***************************************************************************)
(* Layout of the stream being fed                                          *)
(***************************************************************************)
\* a payload length rounded up to whole blocks
PaddedSize(n) == ((n + TAR_BLOCK_SIZE - 1) \div TAR_BLOCK_SIZE) * TAR_BLOCK_SIZE

\* number of stream bytes of an entry
EntryLen(e) ==
  CASE e.kind = "eoa" -> 2 * TAR_BLOCK_SIZE
    [] e.kind = "bigfile" -> 3 * TAR_BLOCK_SIZE
    [] e.kind \in {"dir", "sym", "typed", "nameddir"} -> TAR_BLOCK_SIZE
    [] OTHER -> TAR_BLOCK_SIZE + PaddedSize(e.size)

RECURSIVE EntryStart(_, _)
\* stream offset of the first byte of entry i of archive a
EntryStart(a, i) ==
  IF i <= 1 THEN 0 ELSE EntryStart(a, i - 1) + EntryLen(a[i - 1])

(***************************************************************************)
(* C11  Null-record absorption                                             *)
(***************************************************************************)
\* C11: while the two zero blocks that follow a file entry (of any declared
\* size, 0 included) are consumed, every tarStrEx_process_data call invokes
\* no callback and returns success, and once both are consumed the engine
\* awaits a header with an empty block buffer (buffIdx 0, 512 bytes free).
NullRecordAbsorption ==
  [][\A i \in 2..Len(archive) :
       (/\ archive[i].kind = "eoa"
        /\ archive[i - 1].kind = "file"
        /\ op' = "process"
        /\ pos >= EntryStart(archive, i)
        /\ pos' > pos
        /\ pos' <= EntryStart(archive, i) + 2 * TAR_BLOCK_SIZE) =>
         /\ log' = log
         /\ ret' = TARSTEX_ESUCCESS
         /\ pos' = EntryStart(archive, i) + 2 * TAR_BLOCK_SIZE =>
              /\ tar'.status = "tar_header"
              /\ tar'.buffIdx = 0
              /\ tar'.remaining_buffBytes = TAR_BLOCK_SIZE]_vars

(***************************************************************************)
(* C12  Unsupported type rejection                                         *)
(***************************************************************************)
\* the type byte of the header block of the stream that ends at offset at
TypeByteAt(at) == StreamOf(archive)[at - TAR_BLOCK_SIZE + OFF_TYPE + 1]

\* the last block decoded is checksum-valid and of an unsupported type
UnsupportedDecoded(d) ==
  /\ d # <<>>
  /\ d[Len(d)].res = TARSTEX_ESUCCESS
  /\ TypeByteAt(d[Len(d)].at) \notin {TAR_TYPE_REG, TAR_TYPE_DIR}

\* C12: the tarStrEx_process_data call that completes a checksum-valid
\* header whose type byte is neither '0' nor '5' returns Failure, leaves the
\* engine in the error state, and invokes no callback for that entry.
UnsupportedTypeRejection ==
  [][(op' = "process" /\ Len(dec') > Len(dec) /\ UnsupportedDecoded(dec')) =>
       /\ ret' # TARSTEX_ESUCCESS
       /\ tar'.status = "tar_error"
       /\ \A j \in DOMAIN log' : log'[j].at < dec'[Len(dec')].at]_vars

\* a header of an unsupported type has just been rejected after an earlier
\* entry was extracted
UnsupportedTypeWitness ==
  /\ UnsupportedDecoded(dec)
  /\ Len(dec) >= 2
  /\ log # <<>>
  /\ op = "process"
  /\ pre # "tar_error"
  /\ tar.status = "tar_error"
  /\ ret = TARSTEX_EFAILURE

(***************************************************************************)
(* C13  Finalize guard                                                     *)
(***************************************************************************)
\* a fileInit has been accepted for which no fileFinalize has been issued yet
OpenFile(l) ==
  \E i \in DOMAIN l :
    /\ l[i].cb = "fileInit"
    /\ l[i].res = 0
    /\ \A j \in (i + 1)..Len(l) : l[j].cb # "fileFinalize"

\* C13: tarStrEx_finalize invokes fileFinalize (once) when a file is open,
\* and in every other situation, the error state included, it invokes no
\* callback and returns success.  (An open file in the error state is left
\* to either reading.)
FinalizeGuard ==
  [][op' = "finalize" =>
       /\ (OpenFile(log) /\ tar.status # "tar_error") =>
            /\ Len(log') = Len(log) + 1
            /\ log'[Len(log')].cb = "fileFinalize"
       /\ ~OpenFile(log) => (log' = log /\ ret' = TARSTEX_ESUCCESS)]_vars

(***************************************************************************)
(* C14  Reinitialization recovers                                          *)
(***************************************************************************)
\* C14: tarStrEx_init returns success, and after it has been called on an
\* engine in whatever state the run had reached, the engine gives, call by
\* call, the callback invocations and return values of a freshly initialized
\* engine fed the same chunks.
ReinitRecovers ==
  /\ op = "init" => (ret = TARSTEX_ESUCCESS /\ tar.status = "tar_header")
  /\ reinits >= 1 => (log = fresh.log /\ ret = fresh.ret)

\* after a re-initialization a file has been extracted completely
ReinitWitness ==
  /\ reinits >= 1
  /\ op = "process"
  /\ \E i \in DOMAIN log : log[i].cb = "recvData" /\ log[i].len > 0
  /\ \E i \in DOMAIN log : log[i].cb = "fileFinalize"

(***************************************************************************)
(* C15  Payload fidelity                                                   *)
(***************************************************************************)
\* a natural below 2^32 as limbs <<hi, lo>> of hi * 2^16 + lo
Limbs(n) == <<n \div U16, n % U16>>

\* the base-8 value of the size field of the header block of the stream that
\* ends at offset at, as limbs
DeclaredLimbs(at) ==
  LET v == strtoul(SubSeq(StreamOf(archive), at - TAR_BLOCK_SIZE + 1, at), OFF_SIZE)
  IN <<v.hi, v.lo>>

RECURSIVE ConcatData(_, _)
\* the bytes handed to recvData by the log entries i..j, in call order
ConcatData(i, j) ==
  IF i > j THEN <<>>
  ELSE ConcatData(i, j - 1) \o (IF log[j].cb = "recvData" THEN log[j].data ELSE <<>>)

\* the file begun at log index i has been ended
Ended(i) == \E j \in (i + 1)..SegEnd(i) : log[j].cb = "fileFinalize"

\* C15: for every accepted file of declared size S >= 1 the bytes handed to
\* recvData, concatenated in call order, are the stream bytes that follow
\* the header block, and once the file has been ended they are exactly S.
PayloadFidelity ==
  \A i \in FileInits :
    DeclaredLimbs(log[i].at) # <<0, 0>> =>
      LET n == SumLen(i + 1, SegEnd(i))
      IN /\ ConcatData(i + 1, SegEnd(i))
              = SubSeq(StreamOf(archive), log[i].at + 1, log[i].at + n)
         /\ Ended(i) => Limbs(n) = DeclaredLimbs(log[i].at)

(***************************************************************************)
(* C16  Callback ordering                                                  *)
(***************************************************************************)
\* number of invocations of callback cb about the header that ends at offset at
CallsAt(cb, at) ==
  Cardinality({j \in DOMAIN log : log[j].cb = cb /\ log[j].at = at})

EndIndex(i) == Min({j \in (i + 1)..SegEnd(i) : log[j].cb = "fileFinalize"})

\* bytes to discard after a payload of the size declared by the header that
\* ends at offset at: (512 - S mod 512) mod 512, and 2^16 is a multiple of 512
PadLen(at) ==
  (TAR_BLOCK_SIZE - (DeclaredLimbs(at)[2] % TAR_BLOCK_SIZE)) % TAR_BLOCK_SIZE

\* C17: every header block is decoded at a multiple of 512; and once the
\* payload of a file of declared size S >= 1 has completed at stream offset E
\* (tarStrEx_finalize has not been called, no callback failed), the engine is
\* in the pad state, with no further callback, for the next
\* (512 - S mod 512) mod 512 bytes, then awaits a header with an empty block
\* buffer, and the block decoded next is the one that starts there.  With S
\* a multiple of 512 it awaits a header at once.
BlockAlignment ==
  /\ \A k \in DOMAIN dec : dec[k].at % TAR_BLOCK_SIZE = 0
  /\ \A i \in FileInits :
       (/\ DeclaredLimbs(log[i].at) # <<0, 0>>
        /\ Ended(i)
        /\ AllCallbacksOk
        /\ fins = 0) =>
         LET f == EndIndex(i)
             next == log[f].at + PadLen(log[i].at)
         IN /\ pos < next =>
                 /\ f = Len(log)
                 /\ tar.status = "tar_filePad"
                 /\ tar.buffIdx = (pos - log[i].at) % TAR_BLOCK_SIZE
            /\ pos = next =>
                 /\ f = Len(log)
                 /\ tar.status = "tar_header"
                 /\ tar.buffIdx = 0
                 /\ tar.remaining_buffBytes = TAR_BLOCK_SIZE
            /\ \A j \in (f + 1)..Len(log) : log[j].at >= next + TAR_BLOCK_SIZE
            /\ \A k \in DOMAIN dec :
                 dec[k].at > log[i].at => dec[k].at >= next + TAR_BLOCK_SIZE
            /\ pos >= next + TAR_BLOCK_SIZE =>
                 \E k \in DOMAIN dec : dec[k].at = next + TAR_BLOCK_SIZE

\* the header that follows a 513-byte file and its 511 pad bytes has been
\* decoded
BlockAlignmentWitness ==
  \E i \in FileInits :
    /\ Ended(i)
    /\ fins = 0
    /\ PadLen(log[i].at) = TAR_BLOCK_SIZE - 1
    /\ \E j \in (i + 1)..Len(log) :
         /\ log[j].cb \in {"fileInit", "dirCreate"}
         /\ log[j].at = log[i].at + 3 * TAR_BLOCK_SIZE

(***************************************************************************)
(* C18  Header classification order                                        *)
(***************************************************************************)
\* the header block that ends at stream offset at
BlockAt(at) == SubSeq(StreamOf(archive), at - TAR_BLOCK_SIZE + 1, at)

\* the octal value of the 8 bytes of the checksum field alone, as limbs
ChecksumFieldValue(rh) ==
  ToU32(strtoul([i \in 1..TAR_BLOCK_SIZE |->
                   IF i <= OFF_CHECKSUM + 8 THEN rh[i] ELSE 0], OFF_CHECKSUM))

\* the class the three tests give, in their order
Classify(rh) ==
  IF rh[OFF_CHECKSUM + 1] = 0 THEN TARSTEX_ENULLRECORD
  ELSE IF <<checksum(rh) \div U16, checksum(rh) % U16>> # ChecksumFieldValue(rh)
    THEN TARSTEX_EBADCHKSUM
  ELSE TARSTEX_ESUCCESS

\* C18: every completed header block is classified as null record when the
\* first byte of its checksum field is NUL, else as bad checksum exactly when
\* 256 plus the sum of the bytes outside the checksum field differs from the
\* octal value of the checksum field, else as success; and a null record
\* raises no callback and no error.
HeaderClassification ==
  \A k \in DOMAIN dec :
    /\ dec[k].res = Classify(BlockAt(dec[k].at))
    /\ dec[k].res = TARSTEX_ENULLRECORD =>
         /\ \A j \in DOMAIN log : log[j].at # dec[k].at
         /\ (k = Len(dec) /\ pos = dec[k].at) =>
              (tar.status = "tar_header" /\ ret = TARSTEX_ESUCCESS)

(***************************************************************************)
(* C19  Bounded name copy                                                  *)
(***************************************************************************)
\* the name that the 100 bytes of the name field of the block hold: the
\* string read with every byte after the field taken as NUL
NameField(rh) ==
  CStr([i \in 1..TAR_BLOCK_SIZE |->
          IF i <= OFF_NAME + NAME_SIZE THEN rh[i] ELSE 0], OFF_NAME)

\* C19: the decode of a checksum-valid header completes; right after it the
\* decoded name is the name held by the 100 bytes of the name field and no
\* byte beyond it, the decoded size and type are the value of the size field
\* and the type byte, and the name handed to fileInit or dirCreate is that
\* name.
BoundedNameCopy ==
  /\ tar.status # "aborted"
  /\ \A k \in DOMAIN dec :
       dec[k].res = TARSTEX_ESUCCESS =>
         /\ \A j \in DOMAIN log :
              (log[j].at = dec[k].at /\ log[j].cb \in {"fileInit", "dirCreate"})
                => log[j].path = NameField(BlockAt(dec[k].at))
         /\ k = Len(dec) =>
              /\ tar.hdr.name = NameField(BlockAt(dec[k].at))
              /\ Limbs(tar.hdr.size) = DeclaredLimbs(dec[k].at)
              /\ tar.hdr.type = TypeByteAt(dec[k].at)

(***************************************************************************)
(* C20  Declared size is carried exactly                                   *)
(***************************************************************************)
\* C20: right after a regular-file header has been accepted, the
\* outstanding-payload counter equals the base-8 value of the size field
\* (values of 2^32 and more included).
DeclaredSizeCarried ==
  \A i \in FileInits :
    (i = Len(log) /\ pos = log[i].at) =>
      Limbs(tar.remaining_filedata) = DeclaredLimbs(log[i].at)

(***************************************************************************)
(* C21  Progress and termination of tarStrEx_process_data                  *)
(***************************************************************************)
\* C21: whenever a call may start on an engine that is not in the error
\* state the block buffer has at least one free byte; no pass of the loop of
\* a call has consumed nothing; and a call that returned success has left
\* none of its dataSz input bytes unconsumed.
ProgressAndTermination ==
  /\ tar.status \notin {"tar_error", "aborted"} => tar.remaining_buffBytes >= 1
  /\ op = "process" =>
       /\ call.stalls = 0
       /\ ret = TARSTEX_ESUCCESS => call.left = 0

\* one call has taken a header block, a payload block and 76 bytes more
\* (with no one-byte chunk fed, only a chunk of 1100 bytes leads here)
ProgressWitness ==
  /\ op = "process"
  /\ ret = TARSTEX_ESUCCESS
  /\ tiny = 0
  /\ pos = 2 * TAR_BLOCK_SIZE + 76
  /\ call = NoCall
  /\ tar.status = "tar_filePad"
  /\ tar.buffIdx = 76

(***************************************************************************)
(* C22  Block buffer bounds                                                *)
(***************************************************************************)
\* C22: in every state reached from tarStrEx_init by tarStrEx_process_data
\* and tarStrEx_finalize calls, buffIdx + remaining_buffBytes = 512 and
\* 0 <= buffIdx <= 512; the block buffer still has its 512 bytes (no copy
\* went past its end), and every length handed to recvData is between 0 and
\* 512 and is the length of the bytes handed over.
StagingBounds ==
  /\ tar.buffIdx + tar.remaining_buffBytes = TAR_BLOCK_SIZE
  /\ tar.buffIdx \in 0..TAR_BLOCK_SIZE
  /\ Len(tar.blockBuff) = TAR_BLOCK_SIZE
  /\ \A j \in DOMAIN log :
       log[j].cb = "recvData" =>
         /\ log[j].len \in 0..TAR_BLOCK_SIZE
         /\ Len(log[j].data) = log[j].len

\* a full block and a shorter last fragment have been handed over and the
\* block buffer is partly filled when tarStrEx_finalize is called
StagingBoundsWitness ==
  /\ op = "finalize"
  /\ tar.buffIdx \in 1..(TAR_BLOCK_SIZE - 1)
  /\ \E i, j \in DOMAIN log :
       /\ log[i].cb = "recvData" /\ log[i].len = TAR_BLOCK_SIZE
       /\ log[j].cb = "recvData" /\ log[j].len \in 1..(TAR_BLOCK_SIZE - 1)

(***************************************************************************)
(* C23  Block-granular delivery                                            *)
(***************************************************************************)
\* log indexes of the recvData invocations of the file begun at log index i
Fragments(i) == {j \in (i + 1)..SegEnd(i) : log[j].cb = "recvData"}

\* S - 512 * (ceil(S / 512) - 1) for the size S >= 1 declared by the header
\* that ends at offset at (2^16 is a multiple of 512)
LastFragmentLen(at) ==
  LET r == DeclaredLimbs(at)[2] % TAR_BLOCK_SIZE
  IN IF r = 0 THEN TAR_BLOCK_SIZE ELSE r

\* C23: for an accepted file of declared size S >= 1 every recvData
\* fragment but the last has length 512; once the payload has completed the
\* last has length S - 512 * (ceil(S / 512) - 1); while the file is being
\* received the bytes delivered are the whole blocks received, the rest
\* waiting in the block buffer; and tarStrEx_finalize called mid-file finds
\* a multiple of 512 delivered and hands over no data.
BlockGranularDelivery ==
  /\ [](\A i \in FileInits :
          DeclaredLimbs(log[i].at) # <<0, 0>> =>
            /\ \A j, k \in Fragments(i) :
                 j < k => log[j].len = TAR_BLOCK_SIZE
            /\ (Ended(i) /\ fins = 0) =>
                 \E k \in Fragments(i) :
                   /\ \A j \in Fragments(i) : j <= k
                   /\ log[k].len = LastFragmentLen(log[i].at)
            /\ (~Ended(i) /\ tar.status = "tar_fileData") =>
                 /\ SumLen(i, Len(log))
                      = ((pos - log[i].at) \div TAR_BLOCK_SIZE) * TAR_BLOCK_SIZE
                 /\ tar.buffIdx = (pos - log[i].at) % TAR_BLOCK_SIZE)
  /\ [][(op' = "finalize" /\ tar.status = "tar_fileData") =>
          /\ \A i \in FileInits :
               ~Ended(i) => SumLen(i, Len(log)) % TAR_BLOCK_SIZE = 0
          /\ \A j \in (Len(log) + 1)..Len(log') : log'[j].cb # "recvData"]_vars

\* tarStrEx_finalize has been called on a file of which a whole block has
\* been delivered and a part of the next waits in the block buffer
BlockGranularWitness ==
  /\ op = "finalize"
  /\ fins = 1
  /\ tar.status = "tar_fileData"
  /\ tar.buffIdx \in 1..(TAR_BLOCK_SIZE - 1)
  /\ log[Len(log)].cb = "fileFinalize"
  /\ \E i \in FileInits :
       /\ Fragments(i) # {}
       /\ \A j \in Fragments(i) : log[j].len = TAR_BLOCK_SIZE

=============================================================================
